---- MODULE Spec2Model ----
(***************************************************************************)
(* Advent of Code 2023, day 23 ("Snow Island"): the tile grid parsed from  *)
(* text (SnowIsland::from_str) and the search SnowIsland::longest_path     *)
(* runs over it (dfs over valid_neighbors).                                *)
(*                                                                         *)
(* A text is a sequence of one-character strings.  A Point is a record     *)
(* [x, y]; a Tile is one of the strings Path, Forest, Slope(d).            *)
(***************************************************************************)
EXTENDS Integers, Sequences, FiniteSets, TLC

VARIABLES
    text,          \* SpecParse: the input of from_str
    parsed,        \* SpecParse: Option<Result<SnowIsland, String>>
    written,       \* SpecParse: Option of the re-serialised text
    island,        \* Spec: the SnowIsland (grid, height, width)
    pc,            \* Spec: "idle", "dfs" (inside the while loop), "done", "panicked"
    path_stack,    \* dfs: VecDeque<Vec<Point>>, front first
    visited,       \* dfs: HashSet<Point>
    longest_path,  \* dfs: Vec<Point>
    popped,        \* history: the paths popped so far in this call, in order
    expanded,      \* history: the coordinates that passed the visited check, in order
    result,        \* Option of the value longest_path returned
    climb,         \* Option of the value longest_climbing_path returned
    overflow_checks, \* the build's overflow-checks setting, once observed
    run,           \* number of the current call of longest_path
    previous,      \* history: popped and result of the call before this one
    calls_left,    \* SpecBingo: Option of the calls still to come; None: any may come
    calls,         \* history: the calls play_bingo has taken so far
    boards,        \* play_bingo: Vec<BingoBoard>, the boards still playing
    winning_scores, \* play_bingo: Vec<i32>
    bingo_pc,      \* SpecBingo: "playing", "returned"
    boards0,       \* history: the boards as passed to play_bingo
    board_ids,     \* history: for each board still playing, its index in boards0
    points,        \* SpecPlot: Option of the segments the iterator still holds; None: it may yield any
    plot_diagonals, \* plot_points: Diagonals::Include or Diagonals::Exclude
    plot_grid,     \* plot_points: the HashMap<Point, i32> named grid
    segment,       \* plot_points: Option of the (start, end) being walked
    taken,         \* SpecPlot: number of segments taken from the iterator
    covered,       \* history: per point, the number of plotted segments containing it
    overlapping,   \* Option of the value count_overlapping_points returned
    hist,          \* SpecFish: Vec<u128>, the histogram of timers
    days,          \* advance_lantern_fish_days: the argument days
    day,           \* advance_lantern_fish_days: iterations of the loop done
    total,         \* Option of the value advance_lantern_fish_days returned
    school,        \* history: the timer of every single fish, in order of birth
    crabs,         \* SpecCrabs: Vec<i32>
    fuel_calculator, \* find_cheapest_horizontal_position: "identity" or "triangle_number"
    cheapest,      \* Option of the outcome of find_cheapest_horizontal_position
    nth,           \* SpecTriangle: the argument n of triangle_number
    triangle,      \* Option of the outcome of triangle_number
    binary_report, \* SpecRating: Vec<String>, the strings still in the report
    bit_criteria,  \* find_component_rating: BitCriteria::Oxygen or BitCriteria::CO2
    position,      \* find_component_rating: the bit position the loop looks at next
    rating,        \* Option of the outcome of find_component_rating
    report0        \* history: the report as passed to find_component_rating

vars == <<text, parsed, written, island, pc, path_stack, visited, longest_path,
          popped, expanded, result, climb, overflow_checks, run, previous,
          calls_left, calls, boards, winning_scores, bingo_pc, boards0, board_ids,
          points, plot_diagonals, plot_grid, segment, taken, covered, overlapping,
          hist, days, day, total, school,
          crabs, fuel_calculator, cheapest, nth, triangle,
          binary_report, bit_criteria, position, rating, report0>>

parseVars == <<text, parsed, written>>
searchVars == <<island, pc, path_stack, visited, longest_path, popped, expanded,
                result, climb, overflow_checks, run, previous>>
bingoVars == <<calls_left, calls, boards, winning_scores, bingo_pc, boards0, board_ids>>
plotVars == <<points, plot_diagonals, plot_grid, segment, taken, covered, overlapping>>
fishVars == <<hist, days, day, total, school>>
crabVars == <<crabs, fuel_calculator, cheapest>>
triangleVars == <<nth, triangle>>
ratingVars == <<binary_report, bit_criteria, position, rating, report0>>
puzzleVars == <<bingoVars, plotVars, fishVars, crabVars, triangleVars, ratingVars>>

(***************************************************************************)
(* Bounds of the model.                                                    *)
(***************************************************************************)
\* Texts given to from_str in SpecParse have at most MaxLen characters.
MaxLen == 4
\* Grids searched in Spec have at most MaxW columns and MaxH rows ...
MaxW == 3
MaxH == 3
\* ... and at most MaxCells cells;
MaxCells == 9
\* grids that contain slope tiles have at most MaxSlopeCells cells.
MaxSlopeCells == 4
\* longest_path is called at most MaxRuns times on one island (SpecRepeat).
MaxRuns == 2

None == << >>
Some(v) == <<v>>

(***************************************************************************)
(* Tile, SlopeDirection, Display for Tile                                  *)
(***************************************************************************)
Up == "Up"
Down == "Down"
Left == "Left"
Right == "Right"
SlopeDirection == {Up, Down, Left, Right}

Path == "Path"
Forest == "Forest"
Slope(d) == "Slope" \o d
Tile == {Path, Forest} \cup {Slope(d) : d \in SlopeDirection}

LF == "\n"
CR == "\r"

\* The mutated write table: '<' and '>' exchanged.
DisplayMirrored(tile) ==
    CASE tile = Path -> "."
      [] tile = Forest -> "#"
      [] tile = Slope(Up) -> "^"
      [] tile = Slope(Down) -> "v"
      [] tile = Slope(Left) -> ">"
      [] tile = Slope(Right) -> "<"

Display(tile) ==
    CASE tile = Path -> "."
      [] tile = Forest -> "#"
      [] tile = Slope(Up) -> "^"
      [] tile = Slope(Down) -> "v"
      [] tile = Slope(Left) -> "<"
      [] tile = Slope(Right) -> ">"

(***************************************************************************)
(* Point                                                                   *)
(***************************************************************************)
Point(x, y) == [x |-> x, y |-> y]

neighbors(self) ==
    << Point(self.x, self.y + 1),
       Point(self.x, self.y - 1),
       Point(self.x + 1, self.y),
       Point(self.x - 1, self.y) >>

(***************************************************************************)
(* SnowIsland::from_str                                                    *)
(***************************************************************************)
\* str::lines: the text is cut after every "\n"; the "\n", and a "\r" right
\* before it, are not part of the line; what follows the last "\n" is a
\* line only when it is not empty.
StripCR(line) ==
    IF line # << >> /\ line[Len(line)] = CR
    THEN SubSeq(line, 1, Len(line) - 1)
    ELSE line

\* The pieces of s are cut after each "\n"; piece k ends at the k-th "\n",
\* and a last piece without "\n" exists when characters follow the last one.
lines(s) ==
    LET breaks == {i \in 1..Len(s) : s[i] = LF}
        last == IF breaks = {} THEN 0
                ELSE CHOOSE i \in breaks : \A j \in breaks : j <= i
        Nth(k) == CHOOSE i \in breaks : Cardinality({j \in breaks : j <= i}) = k
        From(k) == IF k = 1 THEN 1 ELSE Nth(k - 1) + 1
        n == Cardinality(breaks)
    IN  [k \in 1..n |-> StripCR(SubSeq(s, From(k), Nth(k) - 1))]
        \o (IF last < Len(s) THEN <<SubSeq(s, last + 1, Len(s))>> ELSE << >>)

\* The match of from_str: Some(tile), or None for the `_` arm.
TileOfChar(c) ==
    CASE c = "#" -> Some(Forest)
      [] c = "." -> Some(Path)
      [] c = ">" -> Some(Slope(Right))
      [] c = "<" -> Some(Slope(Left))
      [] c = "^" -> Some(Slope(Up))
      [] c = "v" -> Some(Slope(Down))
      [] OTHER -> None

RECURSIVE Flatten(_)
Flatten(ls) == IF ls = << >> THEN << >> ELSE Head(ls) \o Flatten(Tail(ls))

\* The mutated width: the length of the last line, not the longest.
LastLineLen(ls) == IF ls = << >> THEN 0 ELSE Len(ls[Len(ls)])

RECURSIVE MaxLineLen(_)
MaxLineLen(ls) ==
    IF ls = << >> THEN 0
    ELSE LET m == MaxLineLen(Tail(ls))
         IN  IF Len(Head(ls)) > m THEN Len(Head(ls)) ELSE m

Ok(v) == [tag |-> "Ok", value |-> v]
Err(e) == [tag |-> "Err", error |-> e]

\* The mutated parser: a character outside the table becomes Forest.
FromStrCoercing(s) ==
    LET ls == lines(s)
        keys == UNION {{Point(x - 1, y - 1) : x \in 1..Len(ls[y])} : y \in 1..Len(ls)}
    IN  Ok([grid |-> [p \in keys |->
                        LET t == TileOfChar(ls[p.y + 1][p.x + 1])
                        IN  IF t = None THEN Forest ELSE t[1]],
            height |-> Len(ls),
            width |-> MaxLineLen(ls)])

\* collect::<Result<HashMap<_, _>, _>>() stops at the first Err, in the order
\* of the lines and, within a line, of its characters.
from_str(s) ==
    LET ls == lines(s)
        bad == SelectSeq(Flatten(ls), LAMBDA c : TileOfChar(c) = None)
        keys == UNION {{Point(x - 1, y - 1) : x \in 1..Len(ls[y])} : y \in 1..Len(ls)}
    IN  IF bad # << >>
        THEN Err(<<bad[1], " is not a valid Tile">>)
        ELSE Ok([grid |-> [p \in keys |-> TileOfChar(ls[p.y + 1][p.x + 1])[1]],
                 height |-> Len(ls),
                 width |-> MaxLineLen(ls)])

\* HashMap::get
Get(grid, p) == IF p \in DOMAIN grid THEN Some(grid[p]) ELSE None

(***************************************************************************)
(* SnowIsland::valid_neighbors, longest_path, dfs, longest_climbing_path   *)
(***************************************************************************)
\* The mutated neighbour rule: a slope is entered like an open tile.
valid_neighbors_ignoring_slopes(self, point) ==
    SelectSeq(neighbors(point), LAMBDA neighbor :
        LET t == Get(self.grid, neighbor)
        IN  t # None /\ t # Some(Forest))

valid_neighbors(self, point) ==
    SelectSeq(neighbors(point), LAMBDA neighbor :
        LET t == Get(self.grid, neighbor)
        IN  CASE t = Some(Path) -> TRUE
              [] t = Some(Slope(Right)) -> neighbor.x = point.x + 1
              [] t = Some(Slope(Left)) -> neighbor.x = point.x - 1
              [] t = Some(Slope(Down)) -> neighbor.y = point.y + 1
              [] t = Some(Slope(Up)) -> neighbor.y = point.y - 1
              [] OTHER -> FALSE)

start == Point(1, 0)
goal(self) == Point(self.width - 2, self.height - 1)

\* The mutated push: the new path is the neighbour alone, without the
\* clone of the path that led to it.
RECURSIVE PushFrontAllWithoutPath(_, _, _)
PushFrontAllWithoutPath(stack, path, ns) ==
    IF ns = << >> THEN stack
    ELSE PushFrontAllWithoutPath(<<<<Head(ns)>>>> \o stack, path, Tail(ns))

\* The mutated push: the new path keeps only the first coordinate of the old.
RECURSIVE PushFrontAllFromStart(_, _, _)
PushFrontAllFromStart(stack, path, ns) ==
    IF ns = << >> THEN stack
    ELSE PushFrontAllFromStart(<<<<path[1], Head(ns)>>>> \o stack, path, Tail(ns))

\* for neighbor in ...: path_stack.push_front(path + [neighbor])
RECURSIVE PushFrontAll(_, _, _)
PushFrontAll(stack, path, ns) ==
    IF ns = << >> THEN stack
    ELSE PushFrontAll(<<Append(path, Head(ns))>> \o stack, path, Tail(ns))

\* The elements of a Vec, as collected into a HashSet.
Elems(seq) == {seq[i] : i \in 1..Len(seq)}

\* longest_path up to and including the first lines of dfs.
LongestPathCall ==
    /\ pc = "idle"
    /\ pc' = "dfs"
    /\ path_stack' = <<<<start>>>>
    /\ visited' = {}
    /\ longest_path' = << >>
    /\ popped' = << >>
    /\ expanded' = << >>
    /\ UNCHANGED <<island, result, climb, overflow_checks, run, previous>>
    /\ UNCHANGED <<parseVars, puzzleVars>>

\* The mutated iteration: the visited check is skipped, every popped path is
\* expanded.
DfsLoopRevisiting ==
    /\ pc = "dfs"
    /\ path_stack # << >>
    /\ LET path == Head(path_stack)
           rest == Tail(path_stack)
           current == path[Len(path)]
       IN  /\ popped' = Append(popped, path)
           /\ visited' = visited \cup {current}
           /\ expanded' = Append(expanded, current)
           /\ longest_path' =
                IF current = goal(island) /\ Len(path) > Len(longest_path)
                THEN path
                ELSE longest_path
           /\ path_stack' =
                PushFrontAll(rest, path, valid_neighbors(island, current))
    /\ UNCHANGED <<island, pc, result, climb, overflow_checks, run, previous>>
    /\ UNCHANGED <<parseVars, puzzleVars>>

\* The mutated iteration: the goal is never inserted into the visited set.
DfsLoopGoalUnvisited ==
    /\ pc = "dfs"
    /\ path_stack # << >>
    /\ LET path == Head(path_stack)
           rest == Tail(path_stack)
           current == path[Len(path)]
       IN  /\ popped' = Append(popped, path)
           /\ IF current \in visited
              THEN /\ path_stack' = rest
                   /\ UNCHANGED <<visited, longest_path, expanded>>
              ELSE /\ visited' = IF current = goal(island) THEN visited
                                 ELSE visited \cup {current}
                   /\ expanded' = Append(expanded, current)
                   /\ longest_path' =
                        IF current = goal(island) /\ Len(path) > Len(longest_path)
                        THEN path
                        ELSE longest_path
                   /\ path_stack' =
                        PushFrontAll(rest, path, valid_neighbors(island, current))
    /\ UNCHANGED <<island, pc, result, climb, overflow_checks, run, previous>>
    /\ UNCHANGED <<parseVars, puzzleVars>>

\* One iteration of `while let Some(path) = path_stack.pop_front()`.
DfsLoop ==
    /\ pc = "dfs"
    /\ path_stack # << >>
    /\ LET path == Head(path_stack)
           rest == Tail(path_stack)
           current == path[Len(path)]
       IN  /\ popped' = Append(popped, path)
           /\ IF current \in visited
              THEN /\ path_stack' = rest
                   /\ UNCHANGED <<visited, longest_path, expanded>>
              ELSE /\ visited' = visited \cup {current}
                   /\ expanded' = Append(expanded, current)
                   /\ longest_path' =
                        IF current = goal(island) /\ Len(path) > Len(longest_path)
                        THEN path
                        ELSE longest_path
                   /\ path_stack' =
                        PushFrontAll(rest, path, valid_neighbors(island, current))
    /\ UNCHANGED <<island, pc, result, climb, overflow_checks, run, previous>>
    /\ UNCHANGED <<parseVars, puzzleVars>>

\* dfs returns longest_path; longest_path returns path.len() - 1 in usize.
\* A usize is modelled by the two's-complement reading of its word, so that
\* the wrapped 0 - 1 (usize::MAX) is -1.  With overflow checks the
\* subtraction panics.  The setting belongs to the build: it is fixed the
\* first time it is observed.
LongestPathReturn ==
    /\ pc = "dfs"
    /\ path_stack = << >>
    /\ LET len == Cardinality(Elems(longest_path))
       IN  IF len >= 1
           THEN /\ pc' = "done"
                /\ result' = Some(len - 1)
                /\ UNCHANGED overflow_checks
           ELSE \E checks \in BOOLEAN :
                  /\ overflow_checks \in {None, Some(checks)}
                  /\ overflow_checks' = Some(checks)
                  /\ IF checks
                     THEN pc' = "panicked" /\ result' = None
                     ELSE pc' = "done" /\ result' = Some(len - 1)
    /\ UNCHANGED <<island, path_stack, visited, longest_path, popped, expanded,
                   climb, run, previous>>
    /\ UNCHANGED <<parseVars, puzzleVars>>

LongestClimbingPath ==
    /\ pc = "done"
    /\ climb = None
    /\ climb' = Some(0)
    /\ UNCHANGED <<island, pc, path_stack, visited, longest_path, popped,
                   expanded, result, overflow_checks, run, previous>>
    /\ UNCHANGED <<parseVars, puzzleVars>>

\* The mutated further call: the visited set of the call before is kept.
LongestPathCallAgainKeepingVisited ==
    /\ pc \in {"done", "panicked"}
    /\ run < MaxRuns
    /\ run' = run + 1
    /\ previous' = Some([popped |-> popped, pc |-> pc, result |-> result])
    /\ pc' = "dfs"
    /\ path_stack' = <<<<start>>>>
    /\ longest_path' = << >>
    /\ popped' = << >>
    /\ expanded' = << >>
    /\ result' = None
    /\ UNCHANGED <<island, visited, climb, overflow_checks>>
    /\ UNCHANGED <<parseVars, puzzleVars>>

\* A further call of longest_path on the same island.
LongestPathCallAgain ==
    /\ pc \in {"done", "panicked"}
    /\ run < MaxRuns
    /\ run' = run + 1
    /\ previous' = Some([popped |-> popped, pc |-> pc, result |-> result])
    /\ pc' = "dfs"
    /\ path_stack' = <<<<start>>>>
    /\ visited' = {}
    /\ longest_path' = << >>
    /\ popped' = << >>
    /\ expanded' = << >>
    /\ result' = None
    /\ UNCHANGED <<island, climb, overflow_checks>>
    /\ UNCHANGED <<parseVars, puzzleVars>>

(***************************************************************************)
(* The islands searched: every rectangular text within the bounds, the     *)
(* empty text, and the SAMPLE of the tests.                                *)
(***************************************************************************)
PlainChars == {".", "#"}
SlopeChars == {"^", "v", "<", ">"}
TileChars == PlainChars \cup SlopeChars

RECURSIVE JoinLines(_)
JoinLines(rows) ==
    IF rows = << >> THEN << >>
    ELSE IF Len(rows) = 1 THEN rows[1]
    ELSE rows[1] \o <<LF>> \o JoinLines(Tail(rows))

SAMPLE_ROWS ==
    <<
       <<"#",".","#","#","#","#","#","#","#","#","#","#","#","#","#","#","#","#","#","#","#","#","#">>,
       <<"#",".",".",".",".",".",".",".","#","#","#","#","#","#","#","#","#",".",".",".","#","#","#">>,
       <<"#","#","#","#","#","#","#",".","#","#","#","#","#","#","#","#","#",".","#",".","#","#","#">>,
       <<"#","#","#",".",".",".",".",".","#",".",">",".",">",".","#","#","#",".","#",".","#","#","#">>,
       <<"#","#","#","v","#","#","#","#","#",".","#","v","#",".","#","#","#",".","#",".","#","#","#">>,
       <<"#","#","#",".",">",".",".",".","#",".","#",".","#",".",".",".",".",".","#",".",".",".","#">>,
       <<"#","#","#","v","#","#","#",".","#",".","#",".","#","#","#","#","#","#","#","#","#",".","#">>,
       <<"#","#","#",".",".",".","#",".","#",".","#",".",".",".",".",".",".",".","#",".",".",".","#">>,
       <<"#","#","#","#","#",".","#",".","#",".","#","#","#","#","#","#","#",".","#",".","#","#","#">>,
       <<"#",".",".",".",".",".","#",".","#",".","#",".",".",".",".",".",".",".","#",".",".",".","#">>,
       <<"#",".","#","#","#","#","#",".","#",".","#",".","#","#","#","#","#","#","#","#","#","v","#">>,
       <<"#",".","#",".",".",".","#",".",".",".","#",".",".",".","#","#","#",".",".",".",">",".","#">>,
       <<"#",".","#",".","#","v","#","#","#","#","#","#","#","v","#","#","#",".","#","#","#","v","#">>,
       <<"#",".",".",".","#",".",">",".","#",".",".",".",">",".",">",".","#",".","#","#","#",".","#">>,
       <<"#","#","#","#","#","v","#",".","#",".","#","#","#","v","#",".","#",".","#","#","#",".","#">>,
       <<"#",".",".",".",".",".","#",".",".",".","#",".",".",".","#",".","#",".","#",".",".",".","#">>,
       <<"#",".","#","#","#","#","#","#","#","#","#",".","#","#","#",".","#",".","#",".","#","#","#">>,
       <<"#",".",".",".","#","#","#",".",".",".","#",".",".",".","#",".",".",".","#",".","#","#","#">>,
       <<"#","#","#",".","#","#","#",".","#",".","#","#","#","v","#","#","#","#","#","v","#","#","#">>,
       <<"#",".",".",".","#",".",".",".","#",".","#",".",">",".",">",".","#",".",">",".","#","#","#">>,
       <<"#",".","#","#","#",".","#","#","#",".","#",".","#","#","#",".","#",".","#","v","#","#","#">>,
       <<"#",".",".",".",".",".","#","#","#",".",".",".","#","#","#",".",".",".","#",".",".",".","#">>,
       <<"#","#","#","#","#","#","#","#","#","#","#","#","#","#","#","#","#","#","#","#","#",".","#">>
    >>

SAMPLE == JoinLines(SAMPLE_ROWS)

Dims == {d \in (1..MaxW) \X (1..MaxH) : d[1] * d[2] <= MaxCells}

CharsFor(d) == IF d[1] * d[2] <= MaxSlopeCells THEN TileChars ELSE PlainChars

GridTexts ==
    {<< >>} \cup
    UNION {{JoinLines(rows) : rows \in [1..d[2] -> [1..d[1] -> CharsFor(d)]]} : d \in Dims}


(***************************************************************************)
(* Each specification below runs one part of the program; the variables of *)
(* the other parts stay at these values.                                   *)
(***************************************************************************)
ParseUnused ==
    /\ text = << >>
    /\ parsed = None
    /\ written = None

BingoUnused ==
    /\ calls_left = None
    /\ calls = << >>
    /\ boards = << >>
    /\ winning_scores = << >>
    /\ bingo_pc = "unused"
    /\ boards0 = << >>
    /\ board_ids = << >>

PlotUnused ==
    /\ points = None
    /\ plot_diagonals = "unused"
    /\ plot_grid = << >>
    /\ segment = None
    /\ taken = 0
    /\ covered = << >>
    /\ overlapping = None

FishUnused ==
    /\ hist = << >>
    /\ days = 0
    /\ day = 0
    /\ total = None
    /\ school = << >>

CrabsUnused ==
    /\ crabs = << >>
    /\ fuel_calculator = "unused"
    /\ cheapest = None

TriangleUnused ==
    /\ nth = 0
    /\ triangle = None

RatingUnused ==
    /\ binary_report = << >>
    /\ bit_criteria = "unused"
    /\ position = 0
    /\ rating = None
    /\ report0 = << >>

InitSearch ==
    /\ \E t \in GridTexts \cup {SAMPLE} :
         /\ from_str(t).tag = "Ok"
         /\ island = from_str(t).value
    /\ pc = "idle"
    /\ path_stack = << >>
    /\ visited = {}
    /\ longest_path = << >>
    /\ popped = << >>
    /\ result = None
    /\ climb = None
    /\ overflow_checks = None
    /\ run = 1
    /\ previous = None
    /\ expanded = << >>
    /\ ParseUnused
    /\ BingoUnused
    /\ PlotUnused
    /\ FishUnused
    /\ CrabsUnused
    /\ TriangleUnused
    /\ RatingUnused

Next ==
    \/ LongestPathCall
    \/ DfsLoop
    \/ LongestPathReturn
    \/ LongestClimbingPath

Spec == InitSearch /\ [][Next]_vars

NextRepeat ==
    \/ Next
    \/ LongestPathCallAgain

SpecRepeat == InitSearch /\ [][NextRepeat]_vars

(***************************************************************************)
(* SpecParse: a text is parsed, and the island is written back tile by     *)
(* tile, row by row.                                                       *)
(***************************************************************************)
\* A character that is neither a tile nor part of a line ending.
OtherChar == "x"
Alphabet == TileChars \cup {LF, CR, OtherChar}

Texts == UNION {[1..n -> Alphabet] : n \in 0..MaxLen}

NoIsland == [grid |-> << >>, height |-> 0, width |-> 0]

\* let island: Result<SnowIsland, String> = text.parse()
Parse ==
    /\ parsed = None
    /\ parsed' = Some(from_str(text))
    /\ UNCHANGED <<text, written>>
    /\ UNCHANGED <<searchVars, puzzleVars>>

\* for y in 0..height { for x in 0..width { print!("{}", grid.get(&Point { x, y }).unwrap()) } println!() }
\* Option::unwrap panics on a coordinate that has no tile.
WriteRows(self) ==
    LET cells == {Point(x, y) : x \in 0..(self.width - 1), y \in 0..(self.height - 1)}
        row(y) == [i \in 1..self.width |-> Display(self.grid[Point(i - 1, y)])] \o <<LF>>
    IN  IF \E p \in cells : Get(self.grid, p) = None
        THEN [tag |-> "Panic"]
        ELSE Ok(Flatten([j \in 1..self.height |-> row(j - 1)]))

Write ==
    /\ parsed # None
    /\ parsed[1].tag = "Ok"
    /\ written = None
    /\ written' = Some(WriteRows(parsed[1].value))
    /\ UNCHANGED <<text, parsed>>
    /\ UNCHANGED <<searchVars, puzzleVars>>

SearchUnused ==
    /\ island = NoIsland
    /\ pc = "idle"
    /\ expanded = << >>
    /\ path_stack = << >>
    /\ visited = {}
    /\ longest_path = << >>
    /\ popped = << >>
    /\ result = None
    /\ climb = None
    /\ overflow_checks = None
    /\ run = 1
    /\ previous = None

InitParse ==
    /\ text \in Texts
    /\ parsed = None
    /\ written = None
    /\ SearchUnused
    /\ BingoUnused
    /\ PlotUnused
    /\ FishUnused
    /\ CrabsUnused
    /\ TriangleUnused
    /\ RatingUnused

NextParse ==
    \/ Parse
    \/ Write

SpecParse == InitParse /\ [][NextParse]_vars

(***************************************************************************)
(* What the claims say, stated on the text itself.                         *)
(***************************************************************************)
\* Position i of the text holds a line ending: "\n", or the "\r" of "\r\n".
IsLineEnding(t, i) ==
    \/ t[i] = LF
    \/ t[i] = CR /\ i < Len(t) /\ t[i + 1] = LF

\* The positions that hold a character of a line that is not a tile.
BadPositions(t) == {i \in 1..Len(t) : ~IsLineEnding(t, i) /\ t[i] \notin TileChars}

\* The line (from 0) and the column (from 0) of position i.
LineOf(t, i) == Cardinality({j \in 1..(i - 1) : t[j] = LF})
ColumnOf(t, i) == Cardinality({j \in 1..(i - 1) : \A k \in j..(i - 1) : t[k] # LF})

\* The table of the specification: character to tile.
TileNamed(c) ==
    IF c = "." THEN Path
    ELSE IF c = "#" THEN Forest
    ELSE IF c = "^" THEN Slope(Up)
    ELSE IF c = "v" THEN Slope(Down)
    ELSE IF c = "<" THEN Slope(Left)
    ELSE Slope(Right)

\* C4: once a text is parsed: if some line holds a character other than the
\* six tile characters, the result is an error that names the first such
\* character and carries no island; otherwise (only tile characters and the
\* line endings "\n" and "\r\n") the result is an island whose grid has
\* exactly one entry per tile character, the tile of the table at
\* (column, line).
C4_ParseRejectsOrMaps ==
    parsed # None =>
        LET r == parsed[1]
            bad == BadPositions(text)
            tiles == {i \in 1..Len(text) : text[i] \in TileChars}
        IN  IF bad # {}
            THEN /\ r.tag = "Err"
                 /\ DOMAIN r = {"tag", "error"}
                 /\ r.error[1] = text[CHOOSE i \in bad : \A j \in bad : i <= j]
            ELSE /\ r.tag = "Ok"
                 /\ DOMAIN r.value.grid =
                        {Point(ColumnOf(text, i), LineOf(text, i)) : i \in tiles}
                 /\ \A i \in tiles :
                        r.value.grid[Point(ColumnOf(text, i), LineOf(text, i))]
                            = TileNamed(text[i])

\* C4 witness: a parsed text whose second line holds the offending character
\* after a valid tile, rejected.
C4_Witness ==
    /\ parsed # None
    /\ parsed[1].tag = "Err"
    /\ Len(text) >= 4
    /\ text[1] \in TileChars
    /\ text[2] = LF
    /\ text[3] \in TileChars
    /\ text[4] = OtherChar

\* A text of tile characters in which every line ends with "\n" and all
\* lines have the same length.
IsRectangular(t) ==
    /\ \A i \in 1..Len(t) : t[i] \in TileChars \cup {LF}
    /\ t # << >> => t[Len(t)] = LF
    /\ \A i, j \in {k \in 1..Len(t) : t[k] = LF} : ColumnOf(t, i) = ColumnOf(t, j)

\* The texts the round trip is claimed for: tile characters and line endings.
IsTileText(t) ==
    \A i \in 1..Len(t) : t[i] \in TileChars \/ IsLineEnding(t, i)

\* C10 as stated: for every text of tile characters and line terminators,
\* writing the parsed island back reproduces the text.
C10_RoundTripAnyText ==
    (written # None /\ IsTileText(text)) => written[1] = Ok(text)

\* C10 amended: the round trip reproduces the text when every line ends with
\* "\n" and all lines have the same length.
C10_RoundTripRectangular ==
    (written # None /\ IsRectangular(text)) => written[1] = Ok(text)

\* C10 witness: two rows holding slope tiles, written back.
C10_Witness ==
    /\ written # None
    /\ text = <<">", LF, "<", LF>>
    /\ written[1] = Ok(text)

(***************************************************************************)
(* What the claims say about the search, stated on the island itself.      *)
(***************************************************************************)
SampleParsed == from_str(SAMPLE)
SampleIsland == SampleParsed.value

\* The point one step from p in direction d.
Move(p, d) ==
    IF d = Right THEN Point(p.x + 1, p.y)
    ELSE IF d = Left THEN Point(p.x - 1, p.y)
    ELSE IF d = Down THEN Point(p.x, p.y + 1)
    ELSE Point(p.x, p.y - 1)

\* The four axis-aligned neighbours of p.
Axis(p) == {Move(p, d) : d \in SlopeDirection}

IsSlope(tile) == \E d \in SlopeDirection : tile = Slope(d)

\* The rule of the specification for stepping from p to n.
MayEnter(self, p, n) ==
    /\ n \in DOMAIN self.grid
    /\ \/ self.grid[n] = Path
       \/ \E d \in SlopeDirection : self.grid[n] = Slope(d) /\ n = Move(p, d)

Maximum(S) == CHOOSE m \in S : \A k \in S : k <= m

\* The number of edges of the longest simple path from p to the goal that
\* avoids `seen`, over the steps valid_neighbors allows; -1 when there is none.
RECURSIVE LongestFrom(_, _, _)
LongestFrom(self, p, seen) ==
    IF p = goal(self) THEN 0
    ELSE LET tails == {LongestFrom(self, n, seen \cup {n}) :
                          n \in Elems(valid_neighbors(self, p)) \ seen}
             found == {k \in tails : k >= 0}
         IN  IF found = {} THEN -1 ELSE 1 + Maximum(found)

LongestSimplePath(self) == LongestFrom(self, start, {start})

\* The number of edges of the shortest path from the frontier to the goal,
\* the frontier being d steps from the start; -1 when there is none.
\* The points one step beyond the frontier that were not seen before.
Beyond(self, frontier, seen) ==
    UNION {Elems(valid_neighbors(self, p)) : p \in frontier} \ seen

\* Breadth first, four layers at a time (an empty layer is followed by empty
\* layers only).
RECURSIVE DistanceFrom(_, _, _, _)
DistanceFrom(self, frontier, seen, d) ==
    IF goal(self) \in frontier THEN d
    ELSE IF frontier = {} THEN -1
    ELSE LET f1 == Beyond(self, frontier, seen)
             s1 == seen \cup f1
             f2 == Beyond(self, f1, s1)
             s2 == s1 \cup f2
             f3 == Beyond(self, f2, s2)
             s3 == s2 \cup f3
             f4 == Beyond(self, f3, s3)
         IN  IF goal(self) \in f1 THEN d + 1
             ELSE IF goal(self) \in f2 THEN d + 2
             ELSE IF goal(self) \in f3 THEN d + 3
             ELSE DistanceFrom(self, f4, s3 \cup f4, d + 4)

ShortestPath(self) == DistanceFrom(self, {start}, {start}, 0)

GoalReachable(self) == ShortestPath(self) >= 0

Returned == pc = "done" /\ result # None

\* C1: when the goal is reachable, longest_path returns the number of edges
\* of the longest simple path from start to goal.
C1_ReturnsLongestSimplePath ==
    (Returned /\ GoalReachable(island)) => result[1] = LongestSimplePath(island)

\* valid_neighbors(p) holds only axis-aligned neighbours of p, and holds such
\* a neighbour n exactly when the rule of the specification lets p step to n.
FollowsRule(self, p) ==
    LET vn == Elems(valid_neighbors(self, p))
    IN  /\ vn \subseteq Axis(p)
        /\ \A n \in Axis(p) : n \in vn <=> MayEnter(self, p, n)

\* C2: valid_neighbors(p) holds a point n exactly when n is an axis-aligned
\* neighbour of p that is in the grid and is Path, or is Slope(D) with p to n
\* a move in direction D: for every point on or next to the grid of a new
\* island, and for the point each iteration of dfs is about to expand.
C2_ValidNeighborsRule ==
    /\ pc = "idle" =>
          \A p \in {Point(x, y) : x \in (-1)..island.width, y \in (-1)..island.height} :
              FollowsRule(island, p)
    /\ (pc = "dfs" /\ path_stack # << >>) =>
          FollowsRule(island, Head(path_stack)[Len(Head(path_stack))])

\* C2 witness: the search has expanded a point with one slope neighbour
\* that was returned and another that was refused.
C2_Witness ==
    /\ pc = "dfs"
    /\ \E p \in visited :
         LET vn == Elems(valid_neighbors(island, p))
         IN  /\ \E n \in vn : IsSlope(island.grid[n])
             /\ \E m \in Axis(p) \ vn : m \in DOMAIN island.grid /\ IsSlope(island.grid[m])

\* C3: in the path dfs returns, the step that leaves a Slope(D) tile is a
\* move in direction D.
C3_LeavesSlopeDownhill ==
    pc = "done" =>
        \A i \in 1..(Len(longest_path) - 1) :
            \A d \in SlopeDirection :
                Get(island.grid, longest_path[i]) = Some(Slope(d))
                    => longest_path[i + 1] = Move(longest_path[i], d)

\* C5: when the goal cannot be reached, longest_path neither panics nor
\* returns the wrapped 0 - 1.
C5_UnreachableIsReported ==
    (pc \in {"done", "panicked"} /\ ~GoalReachable(island))
        => (pc = "done" /\ result # Some(0 - 1))

\* C6: longest_climbing_path returns at least what longest_path returns,
\* and 154 on the sample grid.
C6_ClimbingAtLeastLongest ==
    (Returned /\ result[1] >= 0 /\ climb # None)
        => /\ climb[1] >= result[1]
           /\ island = SampleIsland => climb[1] = 154

\* C7: when the goal is reachable, longest_path returns at least the number
\* of steps of the shortest path over valid_neighbors.
C7_AtLeastShortest ==
    (pc \in {"done", "panicked"} /\ GoalReachable(island))
        => (Returned /\ result[1] >= ShortestPath(island))

\* C7 witness: a returned count above the shortest path's.
C7_Witness ==
    /\ Returned
    /\ GoalReachable(island)
    /\ result[1] > ShortestPath(island)
    /\ ShortestPath(island) >= 2

C9_SampleIs94 ==
    island = SampleIsland =>
        /\ SampleParsed.tag = "Ok"
        /\ island.height = 23
        /\ island.width = 23
        /\ pc \in {"done", "panicked"} => result = Some(94)

(***************************************************************************)
(* Start next to goal.                                                     *)
(***************************************************************************)
\* The goal is one of the four axis-aligned neighbours of the start and both
\* are open tiles.
StartNextToGoal(self) ==
    /\ goal(self) \in Axis(start)
    /\ Get(self.grid, start) = Some(Path)
    /\ Get(self.grid, goal(self)) = Some(Path)

\* No tile other than start and goal is open: all the others are Forest.
OnlyStartAndGoalOpen(self) ==
    \A p \in DOMAIN self.grid : p \notin {start, goal(self)} => self.grid[p] = Forest

\* C11: when the goal is an axis-aligned neighbour of the start and both are
\* open, longest_path returns 1, whatever other open tiles the grid has.
C11_AdjacentReturnsOne ==
    (pc \in {"done", "panicked"} /\ StartNextToGoal(island)) => result = Some(1)

\* C11, amended: when the goal is an axis-aligned neighbour of the start,
\* both are open and every other tile is Forest, longest_path returns 1.
C11_AdjacentAloneReturnsOne ==
    (pc \in {"done", "panicked"} /\ StartNextToGoal(island)
        /\ OnlyStartAndGoalOpen(island)) => result = Some(1)

\* C11 witness: longest_path has returned on a grid of two rows whose start
\* and goal are the only open tiles, the goal below the start.
C11_Witness ==
    /\ Returned
    /\ StartNextToGoal(island)
    /\ OnlyStartAndGoalOpen(island)
    /\ island.height = 2
    /\ Cardinality(DOMAIN island.grid) > 2
    /\ Len(popped) >= 2

(***************************************************************************)
(* The recorded dimensions, stated on the text itself.                     *)
(***************************************************************************)
\* The positions that hold a character of a line (not of a line ending).
LineChars(t) == {i \in 1..Len(t) : ~IsLineEnding(t, i)}

\* A line ends at each "\n"; what follows the last "\n", if anything, is one
\* more line.
NumberOfLines(t) ==
    Cardinality({i \in 1..Len(t) : t[i] = LF})
        + (IF t # << >> /\ t[Len(t)] # LF THEN 1 ELSE 0)

\* The number of characters of line y (from 0).
LineLength(t, y) == Cardinality({i \in LineChars(t) : LineOf(t, i) = y})

LongestLine(t) ==
    IF NumberOfLines(t) = 0 THEN 0
    ELSE Maximum({LineLength(t, y) : y \in 0..(NumberOfLines(t) - 1)})

\* C12: after a successful parse, height is the number of lines of the input
\* and width the maximum line length (0 and 0 for the empty input); the grid
\* has exactly one entry per character of each line, keyed by (column, line),
\* and every key has 0 <= x < width and 0 <= y < height.
C12_DimensionsAndKeys ==
    (parsed # None /\ parsed[1].tag = "Ok") =>
        LET self == parsed[1].value
        IN  /\ self.height = NumberOfLines(text)
            /\ self.width = LongestLine(text)
            /\ text = << >> => (self.height = 0 /\ self.width = 0)
            /\ DOMAIN self.grid =
                   {Point(ColumnOf(text, i), LineOf(text, i)) : i \in LineChars(text)}
            /\ Cardinality(DOMAIN self.grid) = Cardinality(LineChars(text))
            /\ \A p \in DOMAIN self.grid :
                   /\ 0 <= p.x /\ p.x < self.width
                   /\ 0 <= p.y /\ p.y < self.height

\* C12 witness: a parsed text of two lines, the first longer than the second,
\* which has no line ending.
C12_Witness ==
    /\ parsed # None
    /\ parsed[1].tag = "Ok"
    /\ parsed[1].value.height = 2
    /\ parsed[1].value.width = 2
    /\ LineLength(text, 1) = 1
    /\ text[Len(text)] # LF

(***************************************************************************)
(* Termination and cost of dfs.                                            *)
(***************************************************************************)
\* The while loop of dfs keeps running as long as the stack holds a path.
SpecTerminates == InitSearch /\ [][Next]_vars /\ WF_vars(DfsLoop)

\* The paths pushed so far in this call: those popped and those waiting.
Pushed == Len(popped) + Len(path_stack)

Cells(self) == Cardinality(DOMAIN self.grid)

\* No coordinate has passed the visited check twice, at most 1 + 4 * cells
\* paths were pushed, and so at most that many iterations were made.
DfsWithinBudget ==
    /\ \A i, j \in 1..Len(expanded) : expanded[i] = expanded[j] => i = j
    /\ Pushed <= 1 + 4 * Cells(island)
    /\ Len(popped) <= 1 + 4 * Cells(island)

\* C18: dfs terminates (the stack of partial paths eventually becomes empty);
\* every coordinate is expanded at most once in the whole search, so at most
\* 1 + 4 * (number of grid cells) paths are ever pushed and the number of
\* loop iterations is linear in the grid size.
C18_DfsTerminatesLinear ==
    /\ []DfsWithinBudget
    /\ (pc = "dfs") ~> (path_stack = << >>)

\* C18 witness: the stack has become empty after a search over a grid with a
\* cycle, in which some popped path was rejected by the visited check.
C18_Witness ==
    /\ pc = "dfs"
    /\ path_stack = << >>
    /\ Len(expanded) >= 4
    /\ Len(popped) > Len(expanded)

(***************************************************************************)
(* The best path of dfs.                                                   *)
(***************************************************************************)
\* The popped paths that end at the goal, by their position in the order of
\* popping.
ReachedGoal == {i \in 1..Len(popped) : popped[i][Len(popped[i])] = goal(island)}

\* The best path is the first popped path that ends at the goal, if any, and
\* the goal has passed the visited check at most once.
BestIsFirstToGoal ==
    /\ pc # "idle" =>
          longest_path =
              IF ReachedGoal = {} THEN << >>
              ELSE popped[CHOOSE i \in ReachedGoal : \A j \in ReachedGoal : i <= j]
    /\ Cardinality({i \in 1..Len(expanded) : expanded[i] = goal(island)}) <= 1

\* A step that changes the best path assigns it for the first time, a
\* strictly longer path whose last coordinate is the goal.
BestAssignedOnce ==
    longest_path' # longest_path =>
        /\ longest_path = << >>
        /\ Len(longest_path') > Len(longest_path)
        /\ longest_path'[Len(longest_path')] = goal(island)

IsSimpleWalkToGoal(self, path) ==
    /\ path[1] = start
    /\ path[Len(path)] = goal(self)
    /\ \A i \in 1..(Len(path) - 1) :
          /\ path[i + 1] \in Elems(valid_neighbors(self, path[i]))
          /\ path[i + 1] \in Axis(path[i])
    /\ \A i, j \in 1..Len(path) : path[i] = path[j] => i = j

\* C20: in every reachable state of dfs the best path is either empty or
\* begins at start, ends at goal, has each consecutive pair related by
\* valid_neighbors and holds no coordinate twice; so the HashSet built from
\* it has the size of the path and longest_path returns (number of vertices
\* of the path) - 1.
C20_BestIsSimpleWalk ==
    longest_path # << >> =>
        /\ IsSimpleWalkToGoal(island, longest_path)
        /\ Cardinality(Elems(longest_path)) = Len(longest_path)
        /\ pc \in {"done", "panicked"} => result = Some(Len(longest_path) - 1)

\* C20 witness: longest_path has returned the length of a best path that
\* turns a corner.
C20_Witness ==
    /\ Returned
    /\ Len(longest_path) >= 4
    /\ \E i \in 1..(Len(longest_path) - 2) :
          /\ longest_path[i].x # longest_path[i + 2].x
          /\ longest_path[i].y # longest_path[i + 2].y

(***************************************************************************)
(* Advent of Code 2021, day 6: parse_lantern_fish_histogram and            *)
(* advance_lantern_fish_days.  A Vec is a sequence: hist[k + 1] is the     *)
(* Rust hist[k].  The counts stay far below 2^128.                         *)
(***************************************************************************)
MaxFish == 2
MaxDays == 10

\* vec![0; 9]
NumTimers == 9

Timers == 0..(NumTimers - 1)

\* input.iter().fold(vec![0; 9], |mut acc, &i| { acc[i] += 1; acc })
RECURSIVE parse_lantern_fish_histogram(_)
parse_lantern_fish_histogram(input) ==
    IF input = << >> THEN [k \in 1..NumTimers |-> 0]
    ELSE LET acc == parse_lantern_fish_histogram(SubSeq(input, 1, Len(input) - 1))
             i == input[Len(input)]
         IN  [acc EXCEPT ![i + 1] = acc[i + 1] + 1]

\* hist.rotate_left(1)
rotate_left(h) == [k \in 1..Len(h) |-> h[(k % Len(h)) + 1]]

\* The mutated day: the parents are added to the bucket of timer 7.
AdvanceParentsTo7(h) ==
    LET r == rotate_left(h)
    IN  [r EXCEPT ![8] = r[8] + r[9]]

\* hist.rotate_left(1); hist[6] += hist[8];
Advance(h) ==
    LET r == rotate_left(h)
    IN  [r EXCEPT ![7] = r[7] + r[9]]

\* hist.iter().sum()
RECURSIVE Sum(_)
Sum(seq) == IF seq = << >> THEN 0 ELSE Head(seq) + Sum(Tail(seq))

\* One day of every single fish: a fish at 0 resets to 6 and a new fish
\* with timer 8 is born; every other fish counts down by 1.
SchoolAfterDay(s) ==
    [i \in 1..Len(s) |-> IF s[i] = 0 THEN 6 ELSE s[i] - 1]
        \o [i \in 1..Cardinality({j \in 1..Len(s) : s[j] = 0}) |-> 8]

\* let hist = parse_lantern_fish_histogram(timers)
ParseLanternFish ==
    /\ hist = << >>
    /\ hist' = parse_lantern_fish_histogram(school)
    /\ UNCHANGED <<days, day, total, school>>
    /\ UNCHANGED <<parseVars, searchVars, bingoVars, plotVars, crabVars, triangleVars, ratingVars>>

\* One iteration of `for _ in 0..days`.
AdvanceDay ==
    /\ hist # << >>
    /\ day < days
    /\ hist' = Advance(hist)
    /\ day' = day + 1
    /\ school' = SchoolAfterDay(school)
    /\ UNCHANGED <<days, total>>
    /\ UNCHANGED <<parseVars, searchVars, bingoVars, plotVars, crabVars, triangleVars, ratingVars>>

AdvanceReturn ==
    /\ hist # << >>
    /\ day >= days
    /\ total = None
    /\ total' = Some(Sum(hist))
    /\ UNCHANGED <<hist, days, day, school>>
    /\ UNCHANGED <<parseVars, searchVars, bingoVars, plotVars, crabVars, triangleVars, ratingVars>>

InitFish ==
    /\ school \in UNION {[1..k -> Timers] : k \in 0..MaxFish}
    /\ days \in 0..MaxDays
    /\ hist = << >>
    /\ day = 0
    /\ total = None
    /\ ParseUnused
    /\ SearchUnused
    /\ BingoUnused
    /\ PlotUnused
    /\ CrabsUnused
    /\ TriangleUnused
    /\ RatingUnused

NextFish ==
    \/ ParseLanternFish
    \/ AdvanceDay
    \/ AdvanceReturn

SpecFish == InitFish /\ [][NextFish]_vars

\* The number of fish of the school whose timer is k.
FishAt(k) == Cardinality({i \in 1..Len(school) : school[i] = k})

\* C15: for every list of timers in 0..=8 and every days >= 0, the value
\* advance_lantern_fish_days returns on the parsed histogram is the number of
\* fish of the simulation of every single fish for that many days, and after
\* every day the 9-bucket histogram is the timer histogram of that
\* simulation.
C15_HistogramIsSchool ==
    hist # << >> =>
        /\ Len(hist) = 9
        /\ \A k \in 0..8 : hist[k + 1] = FishAt(k)
        /\ total # None => (day = days /\ total = Some(Len(school)))

\* C15 witness: the total was returned after ten days or more, in which a
\* fish born during the run has itself spawned (two fish and four children
\* make six).
C15_Witness ==
    /\ total # None
    /\ day >= 10
    /\ total[1] >= 7

(***************************************************************************)
(* Advent of Code 2021, day 7: triangle_number and                         *)
(* find_cheapest_horizontal_position.  An i32 is an integer of             *)
(* -2^31..2^31-1; a product is computed limb by limb so that its wrapped   *)
(* 32-bit value is exact.                                                  *)
(***************************************************************************)
MaxN == 65536

\* i32::MAX
I32Max == 2147483647

Panic == [tag |-> "Panic"]

\* a * b is above i32::MAX, for a, b >= 0.
MulOverflows(a, b) == a # 0 /\ b > I32Max \div a

\* The low 32 bits of a * b read as an i32, for 0 <= a, b < 2^17.
WrappingMul(a, b) ==
    LET ah == a \div 65536
        al == a % 65536
        bh == b \div 65536
        bl == b % 65536
        p1 == al \div 256
        p0 == al % 256
        q1 == bl \div 256
        q0 == bl % 256
        mid == p1 * q0 + p0 * q1
        t == (p0 * q0) + ((mid % 256) * 256)
        lo16 == t % 65536
        hi16 == (p1 * q1 + (mid \div 256) + (t \div 65536)
                    + ((ah * bl) % 65536) + ((al * bh) % 65536)) % 65536
    IN  IF hi16 >= 32768 THEN (hi16 - 65536) * 65536 + lo16
        ELSE hi16 * 65536 + lo16

\* i32 division by 2 rounds toward zero.
Half(a) == IF a >= 0 \/ (a % 2) = 0 THEN a \div 2 ELSE (a + 1) \div 2

\* (n * (n + 1)) / 2, for 0 <= n < i32::MAX; with overflow checks an
\* overflowing product panics, without them it wraps.
triangle_number(n, checks) ==
    IF MulOverflows(n, n + 1)
    THEN IF checks THEN Panic ELSE Ok(Half(WrappingMul(n, n + 1)))
    ELSE Ok(Half(n * (n + 1)))

TriangleNumberCall ==
    /\ triangle = None
    /\ \E checks \in BOOLEAN : triangle' = Some(triangle_number(nth, checks))
    /\ UNCHANGED nth
    /\ UNCHANGED <<parseVars, searchVars, bingoVars, plotVars, fishVars, crabVars, ratingVars>>

InitTriangle ==
    /\ nth \in 0..MaxN
    /\ triangle = None
    /\ ParseUnused
    /\ SearchUnused
    /\ BingoUnused
    /\ PlotUnused
    /\ FishUnused
    /\ CrabsUnused
    /\ RatingUnused

NextTriangle == TriangleNumberCall

SpecTriangle == InitTriangle /\ [][NextTriangle]_vars

\* 1 + 2 + ... + k, by halving the even one of k and k + 1 first, and whether
\* it is at most i32::MAX.
TriangleFits(k) ==
    IF k % 2 = 0 THEN ~MulOverflows(k \div 2, k + 1)
    ELSE ~MulOverflows(k, (k + 1) \div 2)

SumUpTo(k) == IF k % 2 = 0 THEN (k \div 2) * (k + 1) ELSE k * ((k + 1) \div 2)

\* C17: for every n >= 0 whose triangle number fits in an i32,
\* triangle_number(n) returns 1 + 2 + ... + n: the product n * (n + 1)
\* computed in 32 bits does not overflow for such n.
C17_TriangleNumberExact ==
    (triangle # None /\ TriangleFits(nth)) =>
        /\ ~MulOverflows(nth, nth + 1)
        /\ triangle = Some(Ok(SumUpTo(nth)))

MaxCrabs == 3
MaxPos == 4

\* fuel_calculator(d): std::convert::identity or triangle_number.
Fuel(f, d, checks) == IF f = "identity" THEN Ok(d) ELSE triangle_number(d, checks)

\* (horiz_pos - crab_pos).abs()
Abs(a) == IF a < 0 THEN 0 - a ELSE a

Minimum(S) == CHOOSE m \in S : \A k \in S : m <= k

\* let max_crab_pos = *crabs.iter().max().unwrap();
\* (0..max_crab_pos).map(|horiz_pos| crabs.iter().map(|&crab_pos|
\*     fuel_calculator((horiz_pos - crab_pos).abs())).sum()).min().unwrap()
\* Each unwrap panics on None: max of no crabs, min of an empty range.
find_cheapest_horizontal_position(cs, f, checks) ==
    IF cs = << >> THEN Panic
    ELSE LET max_crab_pos == Maximum(Elems(cs))
             fuels(horiz_pos) ==
                 [i \in 1..Len(cs) |-> Fuel(f, Abs(horiz_pos - cs[i]), checks)]
             range == 0..(max_crab_pos - 1)
         IN  IF \E h \in range : \E i \in 1..Len(cs) : fuels(h)[i] = Panic
             THEN Panic
             ELSE IF range = {} THEN Panic
             ELSE Ok(Minimum({Sum([i \in 1..Len(cs) |-> fuels(h)[i].value]) : h \in range}))

FindCheapestCall ==
    /\ cheapest = None
    /\ \E checks \in BOOLEAN :
         cheapest' = Some(find_cheapest_horizontal_position(crabs, fuel_calculator, checks))
    /\ UNCHANGED <<crabs, fuel_calculator>>
    /\ UNCHANGED <<parseVars, searchVars, bingoVars, plotVars, fishVars, triangleVars, ratingVars>>

InitCrabs ==
    /\ crabs \in UNION {[1..k -> 0..MaxPos] : k \in 1..MaxCrabs}
    /\ fuel_calculator \in {"identity", "triangle_number"}
    /\ cheapest = None
    /\ ParseUnused
    /\ SearchUnused
    /\ BingoUnused
    /\ PlotUnused
    /\ FishUnused
    /\ TriangleUnused
    /\ RatingUnused

NextCrabs == FindCheapestCall

SpecCrabs == InitCrabs /\ [][NextCrabs]_vars

\* The fuel all crabs need to reach position p, where a crab at distance d
\* burns d (identity) or 1 + ... + d (triangle_number).
TotalFuel(p) ==
    Sum([i \in 1..Len(crabs) |->
            IF fuel_calculator = "identity" THEN Abs(p - crabs[i])
            ELSE SumUpTo(Abs(p - crabs[i]))])

\* C16: for every non-empty list of non-negative crab positions,
\* find_cheapest_horizontal_position returns the least total fuel over every
\* position from 0 up to and including the largest crab position; it
\* returns a value (does not panic) also when all crabs are at 0 or at one
\* position.
C16_CheapestOverAllPositions ==
    cheapest # None =>
        cheapest = Some(Ok(Minimum({TotalFuel(p) : p \in 0..Maximum(Elems(crabs))})))

(***************************************************************************)
(* Advent of Code 2021, day 5: plot_points and count_overlapping_points.   *)
(* A segment is a record [start, end] of Points; a HashMap<Point, i32> is  *)
(* a function from its keys.                                               *)
(***************************************************************************)
MaxCoord == 1
MaxSegments == 2

Include == "Include"
Exclude == "Exclude"
Diagonals == {Include, Exclude}

Segment(a, b) == [start |-> a, end |-> b]

\* The mutated plot: the point is entered with count 1, never incremented.
PlotWithoutCounting(g, p) == [q \in DOMAIN g \cup {p} |-> IF q = p THEN 1 ELSE g[q]]

\* let count = grid.entry(start).or_insert(0); *count += 1;
Plot(g, p) ==
    [q \in DOMAIN g \cup {p} |->
        (IF q \in DOMAIN g THEN g[q] ELSE 0) + (IF q = p THEN 1 ELSE 0)]

\* The four ifs of the while body, in order, on the copy of start.
StepTowards(a, b) ==
    LET x1 == IF a.x < b.x THEN a.x + 1 ELSE a.x
        x2 == IF x1 > b.x THEN x1 - 1 ELSE x1
        y1 == IF a.y < b.y THEN a.y + 1 ELSE a.y
        y2 == IF y1 > b.y THEN y1 - 1 ELSE y1
    IN  Point(x2, y2)

\* grid.into_iter().fold(0, |count, (_, value)| if value > 1 { count + 1 } ...)
count_overlapping_points(g) == Cardinality({p \in DOMAIN g : g[p] > 1})

\* The segments of test_5_1_sample and test_5_2_sample.
SampleSegments ==
    << Segment(Point(0, 9), Point(5, 9)), Segment(Point(8, 0), Point(0, 8)),
       Segment(Point(9, 4), Point(3, 4)), Segment(Point(2, 2), Point(2, 1)),
       Segment(Point(7, 0), Point(7, 4)), Segment(Point(6, 4), Point(2, 0)),
       Segment(Point(0, 9), Point(2, 9)), Segment(Point(3, 4), Point(1, 4)),
       Segment(Point(0, 0), Point(8, 8)), Segment(Point(5, 5), Point(8, 2)) >>

\* The segments of the claim: horizontal, vertical or at 45 degrees.
IsStraight(sg) ==
    \/ sg.start.x = sg.end.x
    \/ sg.start.y = sg.end.y
    \/ Abs(sg.start.x - sg.end.x) = Abs(sg.start.y - sg.end.y)

Coords == {Point(x, y) : x \in 0..MaxCoord, y \in 0..MaxCoord}

Segments == {sg \in {Segment(a, b) : a \in Coords, b \in Coords} : IsStraight(sg)}

\* The points of a straight segment, both ends included.
PointsOn(sg) ==
    LET lo(u, v) == IF u < v THEN u ELSE v
        hi(u, v) == IF u < v THEN v ELSE u
    IN  {p \in {Point(x, y) : x \in lo(sg.start.x, sg.end.x)..hi(sg.start.x, sg.end.x),
                              y \in lo(sg.start.y, sg.end.y)..hi(sg.start.y, sg.end.y)} :
            \/ sg.start.x = sg.end.x
            \/ sg.start.y = sg.end.y
            \/ Abs(p.x - sg.start.x) = Abs(p.y - sg.start.y)}

\* With Diagonals::Exclude the segments whose ends differ in both x and y
\* are not plotted.
IsPlotted(mode, sg) ==
    mode = Include \/ sg.start.x = sg.end.x \/ sg.start.y = sg.end.y

\* One more segment over each point of S.
Cover(c, S) ==
    [q \in DOMAIN c \cup S |->
        (IF q \in DOMAIN c THEN c[q] ELSE 0) + (IF q \in S THEN 1 ELSE 0)]

\* for (mut start, end) in points { if matches!(..) && .. { continue; } ..
TakeSegment ==
    /\ segment = None
    /\ overlapping = None
    /\ \E sg \in (IF points = None
                  THEN (IF taken < MaxSegments THEN Segments ELSE {})
                  ELSE (IF points[1] = << >> THEN {} ELSE {Head(points[1])})) :
         /\ segment' =
              IF plot_diagonals = Exclude /\ sg.start.x # sg.end.x /\ sg.start.y # sg.end.y
              THEN None
              ELSE Some(sg)
         /\ covered' = IF IsPlotted(plot_diagonals, sg) THEN Cover(covered, PointsOn(sg))
                       ELSE covered
    /\ points' = IF points = None THEN None ELSE Some(Tail(points[1]))
    /\ taken' = taken + 1
    /\ UNCHANGED <<plot_diagonals, plot_grid, overlapping>>
    /\ UNCHANGED <<parseVars, searchVars, bingoVars, fishVars, crabVars, triangleVars, ratingVars>>

\* One iteration of `while start.x != end.x || start.y != end.y`.
WalkStep ==
    /\ segment # None
    /\ segment[1].start # segment[1].end
    /\ plot_grid' = Plot(plot_grid, segment[1].start)
    /\ segment' = Some(Segment(StepTowards(segment[1].start, segment[1].end), segment[1].end))
    /\ UNCHANGED <<points, plot_diagonals, taken, covered, overlapping>>
    /\ UNCHANGED <<parseVars, searchVars, bingoVars, fishVars, crabVars, triangleVars, ratingVars>>

\* The plot of the end point after the while loop.
FinishSegment ==
    /\ segment # None
    /\ segment[1].start = segment[1].end
    /\ plot_grid' = Plot(plot_grid, segment[1].start)
    /\ segment' = None
    /\ UNCHANGED <<points, plot_diagonals, taken, covered, overlapping>>
    /\ UNCHANGED <<parseVars, searchVars, bingoVars, fishVars, crabVars, triangleVars, ratingVars>>

\* The iterator has ended: plot_points returns grid, and
\* count_overlapping_points is called on it.
CountOverlappingPoints ==
    /\ segment = None
    /\ overlapping = None
    /\ IF points = None THEN TRUE ELSE points[1] = << >>
    /\ overlapping' = Some(count_overlapping_points(plot_grid))
    /\ UNCHANGED <<points, plot_diagonals, plot_grid, segment, taken, covered>>
    /\ UNCHANGED <<parseVars, searchVars, bingoVars, fishVars, crabVars, triangleVars, ratingVars>>

InitPlot ==
    /\ points \in {None, Some(SampleSegments)}
    /\ plot_diagonals \in Diagonals
    /\ plot_grid = << >>
    /\ segment = None
    /\ taken = 0
    /\ covered = << >>
    /\ overlapping = None
    /\ ParseUnused
    /\ SearchUnused
    /\ BingoUnused
    /\ FishUnused
    /\ CrabsUnused
    /\ TriangleUnused
    /\ RatingUnused

NextPlot ==
    \/ TakeSegment
    \/ WalkStep
    \/ FinishSegment
    \/ CountOverlappingPoints

SpecPlot == InitPlot /\ [][NextPlot]_vars

\* C14: for segments that are horizontal, vertical or at 45 degrees, the
\* count plot_points keeps for each point is the number of plotted segments
\* that contain it (both ends included, a zero-length segment counting its
\* point once), where with Diagonals::Exclude exactly the segments whose
\* ends differ in both x and y are not plotted; count_overlapping_points
\* returns the number of points with count at least 2.  While a segment is
\* being walked, the part from the current point to the end is still to be
\* counted.
C14_CountsAreCoverage ==
    /\ segment = None => plot_grid = covered
    /\ segment # None =>
          /\ IsStraight(segment[1])
          /\ Cover(plot_grid, PointsOn(segment[1])) = covered
    /\ overlapping # None =>
          overlapping = Some(Cardinality({p \in DOMAIN covered : covered[p] >= 2}))

\* C14 witness: the ten segments of the tests were taken with
\* Diagonals::Exclude, four of them diagonal and skipped, and the count of
\* overlapping points, 5, was returned.
C14_Witness ==
    /\ plot_diagonals = Exclude
    /\ points = Some(<< >>)
    /\ taken = 10
    /\ Point(0, 8) \notin DOMAIN covered
    /\ overlapping = Some(5)

(***************************************************************************)
(* Advent of Code 2021, day 4: play_bingo.  A BingoBoard is a sequence of  *)
(* 5 rows of 5 cells; a cell is Marked(v) or Unmarked(v).                  *)
(***************************************************************************)
MaxCalls == 3
MaxBoards == 2

\* [[BingoCell; 5]; 5]
BoardSize == 5

Marked(v) == <<"Marked", v>>
Unmarked(v) == <<"Unmarked", v>>

IsMarked(cell) == cell[1] = "Marked"

\* score: the sum of the Unmarked values, times last_call.
calculate_score(board, last_call) ==
    Sum([k \in 1..(BoardSize * BoardSize) |->
            LET cell == board[((k - 1) \div BoardSize) + 1][((k - 1) % BoardSize) + 1]
            IN  IF IsMarked(cell) THEN 0 ELSE cell[2]]) * last_call

\* Every Unmarked(value) with value == number becomes Marked(number).
mark(board, number) ==
    [i \in 1..BoardSize |-> [j \in 1..BoardSize |->
        IF ~IsMarked(board[i][j]) /\ board[i][j][2] = number
        THEN Marked(number)
        ELSE board[i][j]]]

\* A row, or a column, all of whose cells are Marked.
is_winner(board) ==
    \/ \E i \in 1..BoardSize : \A j \in 1..BoardSize : IsMarked(board[i][j])
    \/ \E col \in 1..BoardSize : \A i \in 1..BoardSize : IsMarked(board[i][col])

\* The mutated retain: every board is kept.
RetainAll(bs, past_winners) == bs

\* let mut i = 0; boards.retain(|_| { let keep = !past_winners.contains(&i); i += 1; keep })
RECURSIVE Retain(_, _)
Retain(bs, past_winners) ==
    IF bs = << >> THEN << >>
    ELSE LET kept == Retain(SubSeq(bs, 1, Len(bs) - 1), past_winners)
         IN  IF (Len(bs) - 1) \in past_winners THEN kept ELSE Append(kept, bs[Len(bs)])

\* The calls and the three boards of test_4_1_sample and test_4_2_sample.
SampleCalls ==
    <<7, 4, 9, 5, 11, 17, 23, 2, 0, 14, 21, 24, 10, 16, 13, 6, 15, 25, 12, 22,
      18, 20, 8, 19, 3, 26, 1>>

SampleNumbers ==
    << << <<22, 13, 17, 11, 0>>, <<8, 2, 23, 4, 24>>, <<21, 9, 14, 16, 7>>,
          <<6, 10, 3, 18, 5>>, <<1, 12, 20, 15, 19>> >>,
       << <<3, 15, 0, 2, 22>>, <<9, 18, 13, 17, 5>>, <<19, 8, 7, 25, 23>>,
          <<20, 11, 10, 24, 4>>, <<14, 21, 16, 12, 6>> >>,
       << <<14, 21, 17, 24, 4>>, <<10, 16, 15, 9, 19>>, <<18, 8, 23, 26, 20>>,
          <<22, 11, 13, 6, 5>>, <<2, 0, 12, 3, 7>> >> >>

\* BingoBoard::parse: every number becomes an Unmarked cell.
BoardOf(numbers) ==
    [i \in 1..BoardSize |-> [j \in 1..BoardSize |-> Unmarked(numbers[i][j])]]

SampleBoards == [k \in 1..Len(SampleNumbers) |-> BoardOf(SampleNumbers[k])]

\* The boards played otherwise hold two different numbers a and b: a first
\* row of a, a first column of a, or a and b alternating around one 3, which
\* is never called; elsewhere a and b alternate.
BoardNumbers == {1, 2}
CallNumbers == {0} \cup BoardNumbers

RowBoard(a, b) ==
    BoardOf([i \in 1..BoardSize |-> [j \in 1..BoardSize |->
        IF i = 1 \/ (i + j) % 2 = 0 THEN a ELSE b]])

ColBoard(a, b) ==
    BoardOf([i \in 1..BoardSize |-> [j \in 1..BoardSize |->
        IF j = 1 \/ (i + j) % 2 = 0 THEN a ELSE b]])

ChessBoard(a, b) ==
    BoardOf([i \in 1..BoardSize |-> [j \in 1..BoardSize |->
        IF i = 3 /\ j = 3 THEN 3 ELSE IF (i + j) % 2 = 0 THEN a ELSE b]])

Boards ==
    UNION {{RowBoard(p[1], p[2]), ColBoard(p[1], p[2]), ChessBoard(p[1], p[2])} :
              p \in {q \in BoardNumbers \X BoardNumbers : q[1] # q[2]}}

\* One iteration of `for call in calls`: every board is marked and, if it
\* is a winner, scored, in the order of the boards; then the winners are
\* removed.
PlayCall ==
    /\ bingo_pc = "playing"
    /\ \E call \in (IF calls_left = None
                    THEN (IF Len(calls) < MaxCalls THEN CallNumbers ELSE {})
                    ELSE (IF calls_left[1] = << >> THEN {} ELSE {Head(calls_left[1])})) :
         LET marked == [i \in 1..Len(boards) |-> mark(boards[i], call)]
             past_winners == {i \in 0..(Len(boards) - 1) : is_winner(marked[i + 1])}
             scores == [i \in 1..Len(boards) |-> calculate_score(marked[i], call)]
         IN  /\ winning_scores' =
                  winning_scores \o Retain(scores, (0..(Len(boards) - 1)) \ past_winners)
             /\ boards' = Retain(marked, past_winners)
             /\ board_ids' = Retain(board_ids, past_winners)
             /\ calls' = Append(calls, call)
    /\ calls_left' = IF calls_left = None THEN None ELSE Some(Tail(calls_left[1]))
    /\ UNCHANGED <<bingo_pc, boards0>>
    /\ UNCHANGED <<parseVars, searchVars, plotVars, fishVars, crabVars, triangleVars, ratingVars>>

\* The calls have ended: play_bingo returns winning_scores.
PlayReturn ==
    /\ bingo_pc = "playing"
    /\ IF calls_left = None THEN TRUE ELSE calls_left[1] = << >>
    /\ bingo_pc' = "returned"
    /\ UNCHANGED <<calls_left, calls, boards, winning_scores, boards0, board_ids>>
    /\ UNCHANGED <<parseVars, searchVars, plotVars, fishVars, crabVars, triangleVars, ratingVars>>

InitBingo ==
    /\ \/ /\ calls_left = None
          /\ boards \in UNION {[1..k -> Boards] : k \in 0..MaxBoards}
       \/ /\ calls_left = Some(SampleCalls)
          /\ boards = SampleBoards
    /\ boards0 = boards
    /\ board_ids = [i \in 1..Len(boards) |-> i]
    /\ calls = << >>
    /\ winning_scores = << >>
    /\ bingo_pc = "playing"
    /\ ParseUnused
    /\ SearchUnused
    /\ PlotUnused
    /\ FishUnused
    /\ CrabsUnused
    /\ TriangleUnused
    /\ RatingUnused

NextBingo ==
    \/ PlayCall
    \/ PlayReturn

SpecBingo == InitBingo /\ [][NextBingo]_vars

(***************************************************************************)
(* The game stated on the boards as passed in and the calls made.          *)
(***************************************************************************)
\* The numbers called up to and including call k.
Called(k) == {calls[j] : j \in 1..k}

\* Some row or some column of the board holds only numbers of S.
HasLine(b, S) ==
    \/ \E i \in 1..5 : \A j \in 1..5 : b[i][j][2] \in S
    \/ \E j \in 1..5 : \A i \in 1..5 : b[i][j][2] \in S

\* The call on which board i wins, 0 if it has not won.
WinCall(i) ==
    LET wins == {k \in 1..Len(calls) : HasLine(boards0[i], Called(k))}
    IN  IF wins = {} THEN 0 ELSE Minimum(wins)

WinCalls == [i \in 1..Len(boards0) |-> WinCall(i)]

Winners == {i \in 1..Len(boards0) : WinCall(i) > 0}

\* The sum of the numbers of board i not called up to call k, times call k.
ScoreAt(i, k) ==
    LET called == Called(k)
    IN  Sum([c \in 1..25 |->
                LET v == boards0[i][((c - 1) \div 5) + 1][((c - 1) % 5) + 1][2]
                IN  IF v \in called THEN 0 ELSE v]) * calls[k]

\* The place of winner i in the order of winning calls w and, within a
\* call, of boards.
Place(w, i) ==
    Cardinality({j \in DOMAIN w :
        /\ w[j] > 0
        /\ \/ w[j] < w[i]
           \/ w[j] = w[i] /\ j <= i})

\* C13: over any calls and boards, each board contributes at most one score:
\* a board with a fully marked row or column after a call is scored on that
\* call (sum of its unmarked numbers times the call) and removed before the
\* next call; the scores are in the order of the winning calls and, within
\* one call, of the boards.
C13_EachBoardScoredOnce ==
    LET w == WinCalls
        won == {i \in DOMAIN w : w[i] > 0}
        called == Called(Len(calls))
    IN  /\ Len(winning_scores) = Cardinality(won)
        /\ \A i \in won : winning_scores[Place(w, i)] = ScoreAt(i, w[i])
        /\ Len(board_ids) = Len(boards)
        /\ \A i \in DOMAIN w : i \in won <=> i \notin Elems(board_ids)
        /\ \A k \in 1..Len(boards) :
              /\ k > 1 => board_ids[k - 1] < board_ids[k]
              /\ ~is_winner(boards[k])
              /\ boards[k] = [i \in 1..5 |-> [j \in 1..5 |->
                    LET v == boards0[board_ids[k]][i][j][2]
                    IN  IF v \in called THEN Marked(v) ELSE Unmarked(v)]]

\* C13 witness: two boards, the second won on an earlier call than the
\* first, and a call came after both had won.
C13_Witness ==
    /\ bingo_pc = "returned"
    /\ Len(boards0) = 2
    /\ Winners = {1, 2}
    /\ WinCall(2) < WinCall(1)
    /\ WinCall(1) < Len(calls)
    /\ winning_scores[1] # winning_scores[2]

(***************************************************************************)
(* 2021 day 3, part 2: find_component_rating.                              *)
(***************************************************************************)
\* Reports given to find_component_rating hold at most MaxReport strings
MaxReport == 3
\* of at most MaxBits characters each;
MaxBits == 2
\* the loop counter position is followed up to MaxPosition.
MaxPosition == 6

Oxygen == "Oxygen"
CO2 == "CO2"
BitCriteria == {Oxygen, CO2}

\* s.chars().nth(position): positions count from 0.
nth_char(s, pos) == IF pos < Len(s) THEN Some(s[pos + 1]) ELSE None

\* The for loop over &binary_report: the number of strings with character c
\* at pos.
Freq(report, pos, c) ==
    Cardinality({i \in 1..Len(report) : nth_char(report[i], pos) = Some(c)})

\* The for loop panics on a string that has another character at pos, or
\* none.
CountPanics(report, pos) ==
    \E i \in 1..Len(report) : nth_char(report[i], pos) \notin {Some("0"), Some("1")}

\* The match on bit_criteria.
bit_to_keep(criteria, freq0, freq1) ==
    IF criteria = Oxygen
    THEN IF freq1 >= freq0 THEN "1" ELSE "0"
    ELSE IF freq0 > freq1 THEN "1" ELSE "0"

\* binary_report.retain(|s| s.chars().nth(position).eq(&Some(bit_to_keep)))
RetainBit(report, pos, bit) ==
    SelectSeq(report, LAMBDA s : nth_char(s, pos) = Some(bit))

\* One iteration of the while loop: count, choose the bit, retain, advance.
RatingLoop ==
    /\ rating = None
    /\ Len(binary_report) # 1
    /\ position < MaxPosition
    /\ IF CountPanics(binary_report, position)
       THEN /\ rating' = Some(Panic)
            /\ UNCHANGED <<binary_report, position>>
       ELSE LET freq0 == Freq(binary_report, position, "0")
                freq1 == Freq(binary_report, position, "1")
                bit == bit_to_keep(bit_criteria, freq0, freq1)
            IN  /\ binary_report' = RetainBit(binary_report, position, bit)
                /\ position' = position + 1
                /\ UNCHANGED rating
    /\ UNCHANGED <<bit_criteria, report0>>
    /\ UNCHANGED <<parseVars, searchVars, bingoVars, plotVars, fishVars, crabVars, triangleVars>>

\* The loop has ended with one string left: binary_report.pop().unwrap().
RatingReturn ==
    /\ rating = None
    /\ Len(binary_report) = 1
    /\ rating' = Some(Ok(binary_report[Len(binary_report)]))
    /\ binary_report' = SubSeq(binary_report, 1, Len(binary_report) - 1)
    /\ UNCHANGED <<bit_criteria, position, report0>>
    /\ UNCHANGED <<parseVars, searchVars, bingoVars, plotVars, fishVars, crabVars, triangleVars>>

\* The report of test_3_2_sample.
SampleReport ==
    << <<"0","0","1","0","0">>, <<"1","1","1","1","0">>, <<"1","0","1","1","0">>,
       <<"1","0","1","1","1">>, <<"1","0","1","0","1">>, <<"0","1","1","1","1">>,
       <<"0","0","1","1","1">>, <<"1","1","1","0","0">>, <<"1","0","0","0","0">>,
       <<"1","1","0","0","1">>, <<"0","0","0","1","0">>, <<"0","1","0","1","0">> >>

\* A report with a character that is no bit.
OddReport == << <<"0">>, <<"2">> >>

\* All reports of up to MaxReport strings of one length up to MaxBits.
BitStrings(len) == [1..len -> {"0", "1"}]
Reports ==
    UNION {UNION {[1..k -> BitStrings(len)] : k \in 0..MaxReport} : len \in 0..MaxBits}

InitRating ==
    /\ report0 \in Reports \cup {SampleReport, OddReport}
    /\ binary_report = report0
    /\ bit_criteria \in BitCriteria
    /\ position = 0
    /\ rating = None
    /\ ParseUnused
    /\ SearchUnused
    /\ BingoUnused
    /\ PlotUnused
    /\ FishUnused
    /\ CrabsUnused
    /\ TriangleUnused

NextRating == RatingLoop \/ RatingReturn

SpecRating == InitRating /\ [][NextRating]_vars

\* The loop and the return are steps of one sequential call: whichever is
\* enabled is eventually taken.
SpecRatingTerminates == SpecRating /\ WF_vars(NextRating)

\* The reports the statement is about: non-empty, of pairwise distinct
\* strings of bits, all of one length.
ValidReport ==
    /\ report0 # << >>
    /\ \A i, j \in 1..Len(report0) : report0[i] = report0[j] => i = j
    /\ \A i \in 1..Len(report0) :
         /\ Len(report0[i]) = Len(report0[1])
         /\ Elems(report0[i]) \subseteq {"0", "1"}

\* The strings of the report that have bit b at position pos (from 0).
Having(report, pos, b) ==
    SelectSeq(report, LAMBDA s : pos < Len(s) /\ s[pos + 1] = b)

\* The bit the criteria keeps at position pos: Oxygen the most common one,
\* "1" on a tie; CO2 the least common one, "0" on a tie.
KeptBit(report, pos) ==
    LET ones == Len(Having(report, pos, "1"))
        zeros == Len(Having(report, pos, "0"))
    IN  CASE bit_criteria = Oxygen /\ ones >= zeros -> "1"
          [] bit_criteria = Oxygen /\ ones < zeros -> "0"
          [] bit_criteria = CO2 /\ ones < zeros -> "1"
          [] bit_criteria = CO2 /\ ones >= zeros -> "0"

\* While the call runs some string remains; what it returns is a string of
\* the input.
RatingSafe ==
    ValidReport =>
        /\ rating = None => binary_report # << >>
        /\ rating # None =>
             /\ rating[1].tag = "Ok"
             /\ rating[1].value \in Elems(report0)

\* A pass over one position leaves exactly the strings having the kept bit;
\* the call ends only when exactly one string remains.
RatingStep ==
    ValidReport =>
        /\ position' # position =>
             binary_report' = Having(binary_report, position, KeptBit(binary_report, position))
        /\ rating' # rating => Len(binary_report) = 1

\* C21: for every non-empty report of pairwise distinct binary strings of
\* equal length and for both criteria, find_component_rating terminates and
\* returns a string of the input: each pass keeps the strings having the kept
\* bit (Oxygen: most common, "1" on a tie; CO2: least common, "0" on a tie),
\* the remaining set is never empty, and the loop stops when exactly one
\* string remains.
C21_RatingReturnsAnInputString ==
    /\ []RatingSafe
    /\ [][RatingStep]_vars
    /\ (ValidReport /\ rating = None) ~> (rating # None)

====
